---------------------------- MODULE Spec2Model ----------------------------
(* Model of the doccheck linter (src/main.go): the checking pass that main  *)
(* runs once parser.ParseDir has succeeded, and the three regular           *)
(* expressions, the classifier and the checks it applies.                   *)
(*                                                                          *)
(* A Go string is a sequence of bytes.  A byte is written as a one-character*)
(* string when it is ASCII and as "xHH" otherwise, so that len(), slicing   *)
(* and indexing count bytes, as in Go.                                      *)
EXTENDS Integers, Sequences, FiniteSets, TLC

(***************************************************************************)
(* Bounds of the model.                                                    *)
(***************************************************************************)
\* Declarations in the whole directory, in the runs of the whole pass.
MaxDecls == 3
\* Comment lines that follow the first one in a function's doc-comment.
MaxExtraLines == 1
\* Comments in a package-level doc-comment group.
MaxDocComments == 2

\* The line total above which a package doc-comment is "long" (main.go:154).
LongDocLimit == 100

(***************************************************************************)
(* Bytes and strings.                                                      *)
(***************************************************************************)
\* A string literal as the sequence of its (ASCII) bytes.
Chars(s) == [i \in 1..Len(s) |-> SubSeq(s, i, i)]

UpperSeq == Chars("ABCDEFGHIJKLMNOPQRSTUVWXYZ")
LowerSeq == Chars("abcdefghijklmnopqrstuvwxyz")
Upper == {UpperSeq[i] : i \in DOMAIN UpperSeq}
Lower == {LowerSeq[i] : i \in DOMAIN LowerSeq}
Digit == {"0", "1", "2", "3", "4", "5", "6", "7", "8", "9"}
\* \w of Go's regexp syntax: [0-9A-Za-z_].
WordChar == Upper \cup Lower \cup Digit \cup {"_"}

\* strings.ToLower, on the bytes of an ASCII string.
ToLower(s) ==
    [i \in DOMAIN s |->
        IF s[i] \in Upper
        THEN LowerSeq[CHOOSE k \in DOMAIN UpperSeq : UpperSeq[k] = s[i]]
        ELSE s[i]]

\* s[i-1 : i-1+len(p)] == p, for a one-based i.
HasAt(s, i, p) == i + Len(p) - 1 <= Len(s) /\ SubSeq(s, i, i + Len(p) - 1) = p
\* strings.HasPrefix
HasPrefix(s, p) == HasAt(s, 1, p)
\* strings.Contains
Contains(s, sub) == \E i \in 1..(Len(s) + 1) : HasAt(s, i, sub)
\* strings.Count(s, b) for a one-byte b
Count(s, b) == Cardinality({i \in DOMAIN s : s[i] = b})

\* rune(b) of a byte b: the code point whose number is the byte's value.
\* (An ASCII byte is its own code point; the others are the Latin-1
\* code points U+0080..U+00FF.)
RuneOfByte(b) ==
    CASE b = "x80" -> "U+0080" [] b = "x82" -> "U+0082"
      [] b = "xA7" -> "U+00A7" [] b = "xC3" -> "U+00C3"
      [] b = "xE3" -> "U+00E3" [] OTHER -> b

\* unicode.IsPunct: the code points of category P, among those of the model.
PunctRunes ==
    {"!", "\"", "#", "%", "&", "'", "(", ")", "*", ",", "-", ".", "/", ":",
     ";", "?", "@", "[", "\\", "]", "_", "{", "}",
     "U+00A1", "U+00A7", "U+00AB", "U+00B6", "U+00B7", "U+00BB", "U+00BF",
     "U+3002"}
IsPunct(r) == r \in PunctRunes

(***************************************************************************)
(* initRegexps: the three patterns, and matching against them.             *)
(***************************************************************************)
prefixes ==
    LET base == <<Chars("Has"), Chars("Is"), Chars("Contains"), Chars("Can")>>
    IN  base \o [i \in DOMAIN base |-> ToLower(base[i])]

\* predPrefix.MatchString(name), predPrefix = (?:Has|...|can)[A-Z0-9]\w*
\* MatchString looks for a match anywhere in name; \w* may match nothing.
predPrefixMatch(name) ==
    \E i \in 1..Len(name), k \in DOMAIN prefixes :
        /\ HasAt(name, i, prefixes[k])
        /\ i + Len(prefixes[k]) <= Len(name)
        /\ name[i + Len(prefixes[k])] \in Upper \cup Digit

patterns ==
    LET ps == <<Chars("returns true if"), Chars("returns false if"),
                Chars("returns true iff"), Chars("returns false iff"),
                Chars("returns true for"), Chars("returns false for"),
                Chars("returns true when"), Chars("returns false when"),
                Chars("tells whether"), Chars("tests whether"),
                Chars("determines whether"), Chars("indicates whether")>>
    IN  [i \in DOMAIN ps |-> <<" ">> \o ps[i] \o <<" ">>]

\* predAntipattern.FindStringIndex(line): <<>> for nil, else <<loc[0]>>, the
\* zero-based byte offset at which the leftmost match starts.
predAntipatternFind(line) ==
    LET hits == {i \in 1..Len(line) :
                    \E k \in DOMAIN patterns : HasAt(line, i, patterns[k])}
    IN  IF hits = {} THEN <<>>
        ELSE <<(CHOOSE i \in hits : \A j \in hits : i <= j) - 1>>

\* directive.MatchString(text), directive = //\w+: .*
\* MatchString looks for a match anywhere in text; .* may match nothing.
directiveMatch(text) ==
    \E i \in 1..Len(text) :
        /\ HasAt(text, i, <<"/", "/">>)
        /\ \E j \in (i + 3)..(Len(text) - 1) :
              /\ \A k \in (i + 2)..(j - 1) : text[k] \in WordChar
              /\ text[j] = ":"
              /\ text[j + 1] = " "

(***************************************************************************)
(* The syntax tree that parser.ParseDir hands over.                        *)
(*   package: [Name, Files], Files a map from file name to file            *)
(*   file:    [Doc, Decls]                                                 *)
(*   decl:    [Kind, Name, Results, Doc]                                   *)
(*   Results: <<>> for nil, else <<List>>, List a sequence of fields       *)
(*   field:   [Names, Type], Type = [Kind, Name]                           *)
(*   Doc:     <<>> for nil, else the non-empty list of the comments' Text  *)
(***************************************************************************)
VARIABLES
    path,        \* l.path, the -path flag
    packages,    \* the result of parser.ParseDir: package name -> package
    pc,          \* where the pass stands
    pkgsTodo,    \* main's range over packages: those not yet visited
    pkg,         \* main's loop variable pkg (its name)
    filesTodo,   \* main's range over pkg.Files: those not yet visited
    file,        \* main's loop variable f (its file name)
    declIdx,     \* CheckFile's position in f.Decls
    currentFn,   \* l.current.fn
    issues,      \* l.issues
    stderr,      \* the lines written to os.Stderr, one record per Fprintf
    exitCode,    \* <<>> while running, <<c>> once os.Exit(c) was called
    calls        \* history: the checks run so far, with the slice of stderr
                 \* each wrote

vars == <<path, packages, pc, pkgsTodo, pkg, filesTodo, file, declIdx,
          currentFn, issues, stderr, exitCode, calls>>

\* A declaration is identified by its place; NoFn is the nil cursor.
NoFn == [pkg |-> "", file |-> "", idx |-> 0]
FnId(p, f, i) == [pkg |-> p, file |-> f, idx |-> i]
DeclOf(fn) == packages[fn.pkg].Files[fn.file].Decls[fn.idx]

\* filepath.Join(path, name) as parser.ParseDir forms the keys of pkg.Files.
Join(dir, name) == IF dir = "." THEN name ELSE dir \o "/" \o name

\* l.fset.Position(fn.Pos()).String(): file:line:column of the declaration.
Position(fn) == fn.file \o ":" \o ToString(fn.idx) \o ":1"

(***************************************************************************)
(* The diagnostic sink.  s = [issues, stderr] is the part of the linter    *)
(* that a report changes.                                                  *)
(***************************************************************************)
Emit(s, anchor, msg, site) ==
    [issues |-> s.issues + 1,
     stderr |-> Append(s.stderr, [anchor |-> anchor, msg |-> msg, site |-> site])]
EmitNoCount(s, anchor, msg, site) ==
    [issues |-> s.issues,
     stderr |-> Append(s.stderr, [anchor |-> anchor, msg |-> msg, site |-> site])]

PkgAnchor(fileName) == IF fileName = "" THEN path ELSE fileName
warnPkg(s, fileName, msg, site) == Emit(s, PkgAnchor(fileName), msg, site)

warnFuncNoCount(s, cur, msg, site) == EmitNoCount(s, Position(cur), msg, site)
\* cur is l.current.fn.
warnFunc(s, cur, msg, site) == Emit(s, Position(cur), msg, site)

ExitCodeOfIssues(n) == IF n = 0 THEN 0 ELSE 1
ExitCode == ExitCodeOfIssues(issues)

(***************************************************************************)
(* CheckPackage                                                            *)
(***************************************************************************)
DocFiles(p) == {f \in DOMAIN packages[p].Files : packages[p].Files[f].Doc # <<>>}

RECURSIVE DocLines(_)
DocLines(list) ==
    IF list = <<>> THEN 0
    ELSE Count(Head(list), "\n") + 1 + DocLines(Tail(list))

IsLong(lines) == lines > LongDocLimit

IsMisplaced(docFilename) == docFilename # "doc.go"

CountMessageOne(count) == "found 1 doc-comments, expected 1"
CountMessage(count) == "found " \o ToString(count) \o " doc-comments, expected 1"

\* The range over pkg.Files visits the files in any order; count, and with
\* count = 1 doc and docFilename too, do not depend on it.
CheckPackage(s, p) ==
    LET count == Cardinality(DocFiles(p))
    IN  IF count = 0 THEN warnPkg(s, "", "no doc-comment found", 142)
        ELSE IF count # 1 THEN warnPkg(s, "", CountMessage(count), 145)
        ELSE LET docFilename == CHOOSE f \in DocFiles(p) : TRUE
                 doc == packages[p].Files[docFilename].Doc
             IN  IF /\ packages[p].Name # "main"
                    /\ IsLong(DocLines(doc))
                    /\ IsMisplaced(docFilename)
                 THEN warnPkg(s, docFilename,
                              "long doc-comments should go into doc.go file", 155)
                 ELSE s

(***************************************************************************)
(* The four checks of a function's doc-comment.                            *)
(***************************************************************************)
isBooleanFuncLoose(decl) ==
    /\ decl.Results # <<>>
    /\ Len(decl.Results[1]) = 1
    /\ decl.Results[1][1].Type.Kind = "Ident"
    /\ decl.Results[1][1].Type.Name = "bool"
isBooleanFunc(decl) ==
    IF decl.Results = <<>> \/ Len(decl.Results[1]) # 1 THEN FALSE
    ELSE LET res == decl.Results[1][1]
         IN  IF Len(res.Names) # 1 THEN FALSE
             ELSE IF res.Type.Kind = "Ident" THEN res.Type.Name = "bool"
             ELSE FALSE

InWindowWide(diff) == diff >= 1 /\ diff <= 4
InWindow(diff) == diff > 1 /\ diff <= 4

HasCanonicalPhrase(line, name) == Contains(line, name \o Chars(" reports whether "))

\* cur is l.current.fn, doc the argument.
checkBoolFuncStyle(s, cur, doc) ==
    IF ~isBooleanFunc(DeclOf(cur)) THEN s
    ELSE LET line == doc[1]
             name == DeclOf(cur).Name
             loc == predAntipatternFind(line)
             s1 == IF loc # <<>> /\ InWindow(loc[1] - Len(name))
                   THEN warnFunc(s, cur, "bad predicate comment", 225)
                   ELSE s
         IN  IF predPrefixMatch(name) /\ ~HasCanonicalPhrase(line, name)
             THEN warnFunc(s1, cur, "bad predicate comment", 233)
             ELSE s1

checkNoMultiline(s, cur, doc) ==
    IF \E i \in DOMAIN doc : HasPrefix(doc[i], <<"/", "*">>)
    THEN warnFunc(s, cur, "should not use /**/ comments in doc-comments", 205)
    ELSE s

checkEndsWithPunct(s, cur, doc) ==
    IF Len(doc) # 1 \/ ~HasPrefix(doc[1], <<"/", "/">>) THEN s
    ELSE LET line == doc[1]
         IN  IF ~IsPunct(RuneOfByte(line[Len(line)]))
             THEN warnFunc(s, cur,
                    "doc-comment should end with punctuation, usually with period", 198)
             ELSE s

SpacingOffends(text) ==
    /\ ~HasPrefix(text, <<"/", "*">>)
    /\ ~directiveMatch(text)
    /\ ~HasPrefix(text, <<"/", "/", " ">>)
    /\ ~HasPrefix(text, <<"/", "/", "\t">>)

\* The loop of checkSpacing from doc.List[i-1] on.
RECURSIVE checkSpacingFrom(_, _, _, _)
checkSpacingFrom(s, cur, doc, i) ==
    IF i > Len(doc) THEN s
    ELSE checkSpacingFrom(
            IF SpacingOffends(doc[i])
            THEN warnFunc(s, cur,
                   "found comment without leading space and it's not a pragma", 185)
            ELSE s,
            cur, doc, i + 1)
checkSpacing(s, cur, doc) == checkSpacingFrom(s, cur, doc, 1)


(***************************************************************************)
(* The inputs: what a directory holds, and what ParseDir makes of it.      *)
(***************************************************************************)
FuncDecl(name, results, doc) ==
    [Kind |-> "FuncDecl", Name |-> name, Results |-> results, Doc |-> doc]
GenDecl == [Kind |-> "GenDecl", Name |-> <<>>, Results |-> <<>>, Doc |-> <<>>]

Ident(n) == [Kind |-> "Ident", Name |-> n]
Field(names, type) == [Names |-> names, Type |-> type]
NamedBool == <<<<Field(<<"ok">>, Ident("bool"))>>>>

\* parser.ParseDir(fset, path, nil, ParseComments) on a directory dir (file
\* base name -> [Pkg, Doc, Decls]): one package per package clause, its
\* files keyed by filepath.Join(path, base name).
ParseDir(dirpath, dir) ==
    [n \in {dir[b].Pkg : b \in DOMAIN dir} |->
        [Name |-> n,
         Files |->
            [f \in {Join(dirpath, b) : b \in {c \in DOMAIN dir : dir[c].Pkg = n}} |->
                LET b == CHOOSE c \in DOMAIN dir : Join(dirpath, c) = f
                IN  [Doc |-> dir[b].Doc, Decls |-> dir[b].Decls]]]]

SeqsUpTo(S, n) == UNION {[1..k -> S] : k \in 0..n}
NonEmptySeqsUpTo(S, n) == UNION {[1..k -> S] : k \in 1..n}

ShortDoc == <<Chars("// Package foo does x.")>>

\* Declarations of the runs of the whole pass: a documented predicate with
\* four findings, a documented function with none, an undocumented
\* function and a declaration that is no function.
DeclPool ==
    {FuncDecl(Chars("IsFoo"), NamedBool, <<Chars("//IsFoo returns true if x")>>),
     FuncDecl(Chars("Foo"), <<>>, <<Chars("// Foo does x.")>>),
     FuncDecl(Chars("bar"), <<>>, <<>>),
     GenDecl}

RunDirs ==
    {[b \in {"a.go"} |-> [Pkg |-> "foo", Doc |-> d, Decls |-> ds]] :
        d \in {<<>>, ShortDoc}, ds \in SeqsUpTo(DeclPool, MaxDecls)}
    \cup
    {[b \in {"a.go", "doc.go"} |->
        IF b = "a.go" THEN [Pkg |-> "foo", Doc |-> h[1], Decls |-> ds[1]]
        ELSE [Pkg |-> h[3], Doc |-> h[2], Decls |-> ds[2]]] :
        h \in {<<>>, ShortDoc} \X {<<>>, ShortDoc} \X {"foo", "main"},
        ds \in {x \in SeqsUpTo(DeclPool, MaxDecls) \X SeqsUpTo(DeclPool, MaxDecls) :
                    Len(x[1]) + Len(x[2]) <= MaxDecls}}

\* Declarations of the runs on one documented function.
Names ==
    {Chars("IsFoo"), Chars("Has2"), Chars("canDo"), Chars("Island"), Chars("Is"),
     Chars("ThisIsFoo"), Chars("xHasBar"), Chars("Foo")}

ResultShapes ==
    {<<>>,                                                  \* func f()
     NamedBool,                                             \* (ok bool)
     <<<<Field(<<>>, Ident("bool"))>>>>,                    \* bool
     <<<<Field(<<"a", "b">>, Ident("bool"))>>>>,            \* (a, b bool)
     <<<<Field(<<"a">>, Ident("bool")), Field(<<"err">>, Ident("error"))>>>>,
     <<<<Field(<<"n">>, Ident("int"))>>>>,                  \* (n int)
     <<<<Field(<<"p">>, [Kind |-> "StarExpr", Name |-> "bool"])>>>>}  \* (p *bool)

Leads ==
    {Chars("//"), Chars("// "), Chars("//\t"), Chars("//  "), Chars("//   "),
     Chars("/* ")}
Phrases ==
    {Chars(" reports whether "), Chars(" returns true if "),
     Chars(" tells whether "), Chars(" reports whether it returns true when ")}
\* "", ".", the ideographic full stop U+3002 and the letter U+00E7, in UTF-8.
Ends == {<<>>, <<".">>, <<"xE3", "x80", "x82">>, <<"xC3", "xA7">>}

FirstLine(lead, subject, phrase, end) ==
    lead \o subject \o phrase \o <<"x">> \o end
         \o (IF HasPrefix(lead, <<"/", "*">>) THEN Chars(" */") ELSE <<>>)

ExtraLinePool ==
    {Chars("// more."), Chars("//more"), Chars("//nolint: x"),
     Chars("//go:noinline"), Chars("//bad //nolint: x"), Chars("/* blk */")}

FuncUniverse ==
    {FuncDecl(n, r, <<FirstLine(l, s, ph, <<".">>)>>) :
        n \in Names, r \in ResultShapes, l \in Leads, ph \in Phrases,
        s \in {<<>>, Chars("It")}}
    \cup
    {FuncDecl(n, r, <<FirstLine(l, n, ph, <<".">>)>>) :
        n \in Names, r \in ResultShapes, l \in Leads, ph \in Phrases}
    \cup
    {FuncDecl(Chars("Foo"), <<>>, <<FirstLine(l, Chars("Foo"), Chars(" is "), e)>> \o x) :
        l \in Leads, e \in Ends, x \in SeqsUpTo(ExtraLinePool, MaxExtraLines)}

FuncDirs ==
    {[b \in {"a.go"} |-> [Pkg |-> "foo", Doc |-> ShortDoc, Decls |-> <<d>>]] :
        d \in FuncUniverse}

\* Package doc-comments of the runs on one package: a line-comment, and
\* block-comments of LongDocLimit and of LongDocLimit + 1 lines.
Block(newlines) == Chars("/*") \o [i \in 1..newlines |-> "\n"] \o Chars("*/")
PkgCommentPool == {Chars("// Package foo."), Block(LongDocLimit - 1), Block(LongDocLimit)}
PkgDocs == {<<>>} \cup NonEmptySeqsUpTo(PkgCommentPool, MaxDocComments)

CleanDecls == <<FuncDecl(Chars("Foo"), <<>>, <<Chars("// Foo does x.")>>)>>
PkgDirs ==
    {[b \in bs |-> [Pkg |-> n, Doc |-> docs[b], Decls |-> CleanDecls]] :
        n \in {"foo", "main"},
        bs \in {{"a.go"}, {"doc.go"}, {"a.go", "doc.go"}},
        docs \in [{"a.go", "doc.go"} -> PkgDocs]}
    \cup
    {[b \in {"a.go", "b.go", "doc.go"} |->
        [Pkg |-> n, Doc |-> docs[b], Decls |-> CleanDecls]] :
        n \in {"foo", "main"},
        docs \in [{"a.go", "b.go", "doc.go"} -> {<<>>, ShortDoc}]}

\* The runs checked for termination: a predicate documented by a
\* block-comment (three findings, two of them before a return) and a
\* declaration that is no function.
PassPool ==
    {FuncDecl(Chars("IsFoo"), NamedBool, <<Chars("/* IsFoo returns true if x */")>>),
     GenDecl}
PassDirs ==
    {[b \in {"a.go"} |-> [Pkg |-> "foo", Doc |-> d, Decls |-> ds]] :
        d \in {<<>>, ShortDoc}, ds \in SeqsUpTo(PassPool, MaxDecls)}
    \cup
    {[b \in {"a.go", "doc.go"} |->
        IF b = "a.go" THEN [Pkg |-> "foo", Doc |-> h[1], Decls |-> ds[1]]
        ELSE [Pkg |-> h[2], Doc |-> ShortDoc, Decls |-> ds[2]]] :
        h \in {<<>>, ShortDoc} \X {"foo", "main"},
        ds \in {x \in SeqsUpTo(PassPool, MaxDecls) \X SeqsUpTo(PassPool, MaxDecls) :
                    Len(x[1]) + Len(x[2]) <= MaxDecls}}

(***************************************************************************)
(* The pass: main's loops, CheckFile's loop and the checks, one step each. *)
(***************************************************************************)
Start(p, dir) ==
    /\ path = p
    /\ packages = ParseDir(p, dir)
    /\ pc = "main"
    /\ pkgsTodo = DOMAIN packages
    /\ pkg = ""
    /\ filesTodo = {}
    /\ file = ""
    /\ declIdx = 0
    /\ currentFn = NoFn
    /\ issues = 0
    /\ stderr = <<>>
    /\ exitCode = <<>>
    /\ calls = <<>>

Init == \E dir \in RunDirs : Start("pkg", dir)
InitPass == \E dir \in PassDirs : Start("pkg", dir)
InitFunc == \E dir \in FuncDirs : Start("pkg", dir)
InitPkg == \E p \in {".", "pkg"}, dir \in PkgDirs : Start(p, dir)

Sink == [issues |-> issues, stderr |-> stderr]
Call(fn, arg, after) ==
    [fn |-> fn, arg |-> arg, cursor |-> currentFn,
     from |-> Len(stderr), to |-> Len(after.stderr)]

\* main.go:34 -- the next package of the range over packages.
MainNextPackage ==
    /\ pc = "main"
    /\ \E p \in pkgsTodo :
          /\ pkg' = p
          /\ pkgsTodo' = pkgsTodo \ {p}
    /\ pc' = "CheckPackage"
    /\ UNCHANGED <<path, packages, filesTodo, file, declIdx, currentFn,
                   issues, stderr, exitCode, calls>>

\* main.go:35 -- l.CheckPackage(pkg)
DoCheckPackage ==
    /\ pc = "CheckPackage"
    /\ \E after \in {CheckPackage(Sink, pkg)} :
           /\ issues' = after.issues
           /\ stderr' = after.stderr
           /\ calls' = Append(calls, Call("CheckPackage", FnId(pkg, "", 0), after))
    /\ filesTodo' = DOMAIN packages[pkg].Files
    /\ pc' = "files"
    /\ UNCHANGED <<path, packages, pkgsTodo, pkg, file, declIdx, currentFn, exitCode>>

\* main.go:36 -- the next file of the range over pkg.Files, or its end.
MainNextFile ==
    /\ pc = "files"
    /\ IF filesTodo = {}
       THEN /\ pc' = "main"
            /\ UNCHANGED <<file, filesTodo, declIdx>>
       ELSE /\ \E f \in filesTodo :
                  /\ file' = f
                  /\ filesTodo' = filesTodo \ {f}
            /\ declIdx' = 1
            /\ pc' = "CheckFile"
    /\ UNCHANGED <<path, packages, pkgsTodo, pkg, currentFn, issues, stderr,
                   exitCode, calls>>

\* main.go:161-166 -- the next declaration of f.Decls, or the loop's end.
CheckFileNextDecl ==
    /\ pc = "CheckFile"
    /\ LET decls == packages[pkg].Files[file].Decls
       IN  IF declIdx > Len(decls)
           THEN /\ pc' = "files"
                /\ UNCHANGED <<declIdx, currentFn>>
           ELSE IF decls[declIdx].Kind = "FuncDecl" /\ decls[declIdx].Doc # <<>>
           THEN /\ currentFn' = FnId(pkg, file, declIdx)
                /\ pc' = "checkBoolFuncStyle"
                /\ UNCHANGED declIdx
           ELSE /\ declIdx' = declIdx + 1
                /\ UNCHANGED <<pc, currentFn>>
    /\ UNCHANGED <<path, packages, pkgsTodo, pkg, filesTodo, file, issues,
                   stderr, exitCode, calls>>

\* One of the four calls of main.go:167-170, on doc = decl.Doc.
CurDoc == packages[pkg].Files[file].Decls[declIdx].Doc
SubCheck(name, result, next) ==
    /\ pc = name
    /\ \E after \in {result} :
           /\ issues' = after.issues
           /\ stderr' = after.stderr
           /\ calls' = Append(calls, Call(name, FnId(pkg, file, declIdx), after))
    /\ pc' = next
    /\ UNCHANGED <<path, packages, pkgsTodo, pkg, filesTodo, file, currentFn, exitCode>>

DoCheckBoolFuncStyle ==
    /\ SubCheck("checkBoolFuncStyle", checkBoolFuncStyle(Sink, currentFn, CurDoc), "checkNoMultiline")
    /\ UNCHANGED declIdx

DoCheckNoMultilineStop ==
    /\ pc = "checkNoMultiline"
    /\ \E after \in {checkNoMultiline(Sink, currentFn, CurDoc)} :
          IF after.issues # issues
          THEN /\ SubCheck("checkNoMultiline", after, "CheckFile")
               /\ declIdx' = declIdx + 1
          ELSE /\ SubCheck("checkNoMultiline", after, "checkEndsWithPunct")
               /\ UNCHANGED declIdx
DoCheckNoMultiline ==
    /\ SubCheck("checkNoMultiline", checkNoMultiline(Sink, currentFn, CurDoc), "checkEndsWithPunct")
    /\ UNCHANGED declIdx

DoCheckEndsWithPunct ==
    /\ SubCheck("checkEndsWithPunct", checkEndsWithPunct(Sink, currentFn, CurDoc), "checkSpacing")
    /\ UNCHANGED declIdx

DoCheckSpacing ==
    /\ SubCheck("checkSpacing", checkSpacing(Sink, currentFn, CurDoc), "CheckFile")
    /\ declIdx' = declIdx + 1

\* main.go:41 -- os.Exit(l.ExitCode())
Exit ==
    /\ pc = "main"
    /\ pkgsTodo = {}
    /\ exitCode' = <<ExitCode>>
    /\ pc' = "exited"
    /\ UNCHANGED <<path, packages, pkgsTodo, pkg, filesTodo, file, declIdx,
                   currentFn, issues, stderr, calls>>

Next ==
    \/ MainNextPackage
    \/ DoCheckPackage
    \/ MainNextFile
    \/ CheckFileNextDecl
    \/ DoCheckBoolFuncStyle
    \/ DoCheckNoMultiline
    \/ DoCheckEndsWithPunct
    \/ DoCheckSpacing
    \/ Exit

Spec == Init /\ [][Next]_vars

SpecFunc == InitFunc /\ [][Next]_vars
SpecPkg == InitPkg /\ [][Next]_vars

\* The pass is one thread that runs until os.Exit: a step that can be taken
\* is taken.
FairSpec == InitPass /\ [][Next]_vars /\ WF_vars(Next)


(***************************************************************************)
(* What the claims speak of.                                               *)
(***************************************************************************)
\* The lines of stderr that the call c wrote.
Slice(c) == (c.from + 1)..c.to
SiteHits(c, site) == Cardinality({k \in Slice(c) : stderr[k].site = site})
MsgHits(c, msg) == Cardinality({k \in Slice(c) : stderr[k].msg = msg})
CallsTo(name) == {calls[i] : i \in {j \in DOMAIN calls : calls[j].fn = name}}
NumCalls(name, arg) ==
    Cardinality({j \in DOMAIN calls : calls[j].fn = name /\ calls[j].arg = arg})

\* The text t stands in s at the one-based place i.
At(s, i, t) == i + Len(t) - 1 <= Len(s) /\ \A k \in DOMAIN t : s[i + k - 1] = t[k]

BadPredicate == "bad predicate comment"
PunctMessage == "doc-comment should end with punctuation, usually with period"
LongDocMessage == "long doc-comments should go into doc.go file"

\* A predicate: one result, with one bound name, of the literal type bool.
IsPredicateDecl(d) ==
    /\ d.Results # <<>>
    /\ Len(d.Results[1]) = 1
    /\ Len(d.Results[1][1].Names) = 1
    /\ d.Results[1][1].Type = Ident("bool")

\* The name begins with Has, Is, Contains or Can (or has, is, contains,
\* can) and an uppercase letter or a digit follows at once.
NameBeginsWithPredicatePrefix(name) ==
    \E pre \in {Chars("Has"), Chars("Is"), Chars("Contains"), Chars("Can"),
                Chars("has"), Chars("is"), Chars("contains"), Chars("can")} :
        /\ Len(name) > Len(pre)
        /\ At(name, 1, pre)
        /\ name[Len(pre) + 1] \in Upper \cup Digit

ReportsWhether(line, name) ==
    \E i \in 1..Len(line) : At(line, i, name \o Chars(" reports whether "))

\* ---------------------------------------------------------------- C1
\* C1: the issue counter equals the number of diagnostic lines written, and
\* the exit status is 0 when none was written and 1 otherwise.
C1_IssuesCountDiagnostics ==
    /\ issues = Len(stderr)
    /\ exitCode # <<>> => exitCode[1] = (IF Len(stderr) = 0 THEN 0 ELSE 1)

\* The pass has ended with status 1 after reports of warnPkg and of warnFunc.
C1_Witness ==
    /\ exitCode = <<1>>
    /\ \E k \in DOMAIN stderr : stderr[k].site = 142
    /\ \E k \in DOMAIN stderr : stderr[k].site = 233
    /\ Len(stderr) >= 5

\* ---------------------------------------------------------------- C2
NumDocFiles(p) ==
    Cardinality({f \in DOMAIN packages[p].Files : packages[p].Files[f].Doc # <<>>})

\* C2: a package whose number N of files with a package doc-comment is not 1
\* gets exactly one finding from CheckPackage, anchored to the package path,
\* "no doc-comment found" for N = 0 and "found N doc-comments, expected 1"
\* for N > 1, and no long-doc finding.
C2_CountFinding ==
    \A c \in CallsTo("CheckPackage") :
        LET n == NumDocFiles(c.arg.pkg)
        IN  n # 1 =>
              /\ c.to = c.from + 1
              /\ stderr[c.to].anchor = path
              /\ stderr[c.to].anchor \notin DOMAIN packages[c.arg.pkg].Files
              /\ stderr[c.to].msg =
                    (CASE n = 0 -> "no doc-comment found"
                       [] n = 2 -> "found 2 doc-comments, expected 1"
                       [] n = 3 -> "found 3 doc-comments, expected 1"
                       [] OTHER -> "")
              /\ MsgHits(c, LongDocMessage) = 0

\* CheckPackage has run on packages with no, and with three, doc-comments,
\* and on one with two of which one is long and outside doc.go.
C2_Witness ==
    \E c \in CallsTo("CheckPackage") :
        /\ packages[c.arg.pkg].Name # "main"
        /\ NumDocFiles(c.arg.pkg) = 2
        /\ \E f \in DOMAIN packages[c.arg.pkg].Files :
              /\ f # Join(path, "doc.go")
              /\ DocLines(packages[c.arg.pkg].Files[f].Doc) > LongDocLimit
        /\ MsgHits(c, "found 2 doc-comments, expected 1") = 1

\* ---------------------------------------------------------------- C3
\* The physical lines of a comment group: embedded newlines + 1, summed.
RECURSIVE PhysicalLines(_)
PhysicalLines(doc) ==
    IF doc = <<>> THEN 0
    ELSE Cardinality({i \in DOMAIN Head(doc) : Head(doc)[i] = "\n"}) + 1
         + PhysicalLines(Tail(doc))

\* C3: a package with exactly one package doc-comment gets exactly one
\* long-doc finding, anchored to the file, when it is not main, the comment
\* has more than 100 lines and is not in doc.go of the directory; and no
\* finding when the comment is in doc.go, has at most 100 lines, or the
\* package is main -- whatever the directory path.
C3_LongDocOutsideDocGo ==
    \A c \in CallsTo("CheckPackage") :
        NumDocFiles(c.arg.pkg) = 1 =>
            LET p == packages[c.arg.pkg]
                f == CHOOSE g \in DOMAIN p.Files : p.Files[g].Doc # <<>>
                long == PhysicalLines(p.Files[f].Doc) > 100
                inDocGo == f = Join(path, "doc.go")
            IN  IF p.Name # "main" /\ long /\ ~inDocGo
                THEN /\ c.to = c.from + 1
                     /\ stderr[c.to].msg = LongDocMessage
                     /\ stderr[c.to].anchor = f
                ELSE c.to = c.from

\* ---------------------------------------------------------------- C4
\* C4: for a documented predicate whose name begins with a predicate prefix,
\* the name-based check reports "bad predicate comment" exactly when the
\* first comment line lacks "<Name> reports whether "; a function that is no
\* predicate gets no "bad predicate comment" at all.
C4_NameBasedCheck ==
    \A c \in CallsTo("checkBoolFuncStyle") :
        LET d == DeclOf(c.arg)
        IN  /\ (IsPredicateDecl(d) /\ NameBeginsWithPredicatePrefix(d.Name)) =>
                  SiteHits(c, 233) = (IF ReportsWhether(d.Doc[1], d.Name) THEN 0 ELSE 1)
            /\ ~IsPredicateDecl(d) =>
                  \A k \in DOMAIN stderr :
                      stderr[k].anchor = Position(c.arg) => stderr[k].msg # BadPredicate

\* The name-based check has reported on a predicate named with a prefix.
C4_Witness ==
    \E c \in CallsTo("checkBoolFuncStyle") :
        /\ IsPredicateDecl(DeclOf(c.arg))
        /\ NameBeginsWithPredicatePrefix(DeclOf(c.arg).Name)
        /\ ~ReportsWhether(DeclOf(c.arg).Doc[1], DeclOf(c.arg).Name)
        /\ SiteHits(c, 233) = 1
        /\ pc = "exited"

\* ---------------------------------------------------------------- C5
\* The last character of a line, decoded from UTF-8.
LastChar(line) ==
    IF Len(line) >= 3 /\ SubSeq(line, Len(line) - 2, Len(line)) = <<"xE3", "x80", "x82">>
    THEN "U+3002"
    ELSE IF Len(line) >= 2 /\ SubSeq(line, Len(line) - 1, Len(line)) = <<"xC3", "xA7">>
    THEN "U+00E7"
    ELSE line[Len(line)]

\* C5: a doc-comment of exactly one line-comment gets the punctuation
\* finding if and only if its last character is not of the Unicode
\* punctuation category; any other doc-comment never gets it.
C5_EndsWithPunct ==
    \A c \in CallsTo("checkEndsWithPunct") :
        LET doc == DeclOf(c.arg).Doc
        IN  MsgHits(c, PunctMessage) =
              (IF /\ Len(doc) = 1
                  /\ At(doc[1], 1, <<"/", "/">>)
                  /\ LastChar(doc[1]) \notin PunctRunes
               THEN 1 ELSE 0)

\* ---------------------------------------------------------------- C6
\* A line of the shape //<identifier>: <rest>.
DirectiveShape(text) ==
    /\ At(text, 1, <<"/", "/">>)
    /\ \E j \in 4..(Len(text) - 1) :
          /\ \A k \in 3..(j - 1) : text[k] \in WordChar
          /\ text[j] = ":"
          /\ text[j + 1] = " "

Offending(text) ==
    /\ At(text, 1, <<"/", "/">>)
    /\ Len(text) < 3 \/ text[3] \notin {" ", "\t"}
    /\ ~DirectiveShape(text)

\* C6: checkSpacing writes as many spacing findings as the doc-comment has
\* offending lines: line-comments that begin neither with "// " nor with
\* "//" and a tab and are not of the directive shape.
C6_SpacingPerOffendingLine ==
    \A c \in CallsTo("checkSpacing") :
        LET doc == DeclOf(c.arg).Doc
        IN  c.to - c.from = Cardinality({i \in DOMAIN doc : Offending(doc[i])})

\* ---------------------------------------------------------------- C7
AllDeclIds ==
    UNION {UNION {{FnId(p, f, i) : i \in DOMAIN packages[p].Files[f].Decls} :
                    f \in DOMAIN packages[p].Files} : p \in DOMAIN packages}
Documented(fn) == DeclOf(fn).Kind = "FuncDecl" /\ DeclOf(fn).Doc # <<>>
SubChecks == {"checkBoolFuncStyle", "checkNoMultiline", "checkEndsWithPunct", "checkSpacing"}

EverythingVisitedOnce ==
    /\ \A p \in DOMAIN packages : NumCalls("CheckPackage", FnId(p, "", 0)) = 1
    /\ \A fn \in AllDeclIds, name \in SubChecks :
          NumCalls(name, fn) = (IF Documented(fn) THEN 1 ELSE 0)
    /\ \A i \in DOMAIN calls :
          calls[i].fn \in SubChecks => calls[i].cursor = calls[i].arg
    /\ Len(calls) = Cardinality(DOMAIN packages)
                      + 4 * Cardinality({fn \in AllDeclIds : Documented(fn)})

\* C7: the pass always reaches the exit-status computation, and has then run
\* CheckPackage once for every package and each of the four sub-checks once
\* for every documented function, with the cursor on that function,
\* whatever was found on the way.
C7_PassCompletes ==
    /\ <>(pc = "exited")
    /\ [](pc = "exited" => EverythingVisitedOnce)

\* The pass has ended over two packages and two documented functions, with
\* package-level and function-level findings.
C7_Witness ==
    /\ pc = "exited"
    /\ Cardinality(DOMAIN packages) = 2
    /\ Cardinality({fn \in AllDeclIds : Documented(fn)}) >= 2
    /\ \E k \in DOMAIN stderr : stderr[k].site = 142
    /\ \E k \in DOMAIN stderr : stderr[k].site = 225
    /\ \E k \in DOMAIN stderr : stderr[k].site = 233
    /\ \E k \in DOMAIN stderr : stderr[k].site = 205

\* ---------------------------------------------------------------- C8
\* C8: checkBoolFuncStyle writes at most one "bad predicate comment" for a
\* comment.
C8_AtMostOneBadPredicate ==
    \A c \in CallsTo("checkBoolFuncStyle") : MsgHits(c, BadPredicate) <= 1

\* ---------------------------------------------------------------- C9
\* C9: the name-based requirement applies to a predicate exactly when its
\* name begins with a predicate prefix followed by an uppercase letter or a
\* digit: a name that only contains one further on is not subject to it.
C9_PrefixAtStartOnly ==
    \A c \in CallsTo("checkBoolFuncStyle") :
        LET d == DeclOf(c.arg)
        IN  IsPredicateDecl(d) =>
              (SiteHits(c, 233) = 1
                 <=> (/\ NameBeginsWithPredicatePrefix(d.Name)
                      /\ ~ReportsWhether(d.Doc[1], d.Name)))

\* --------------------------------------------------------------- C10
AntipatternPhrases ==
    {Chars(" returns true if "), Chars(" returns false if "),
     Chars(" returns true iff "), Chars(" returns false iff "),
     Chars(" returns true for "), Chars(" returns false for "),
     Chars(" returns true when "), Chars(" returns false when "),
     Chars(" tells whether "), Chars(" tests whether "),
     Chars(" determines whether "), Chars(" indicates whether ")}
\* The zero-based offsets in line at which a phrase / the text t starts.
PhraseStarts(line) ==
    {i \in 0..(Len(line) - 1) :
        \E ph \in AntipatternPhrases : At(line, i + 1, ph)}
Occurrences(line, t) ==
    {i \in 0..(Len(line) - 1) : At(line, i + 1, t)}
Least(S) == CHOOSE i \in S : \A j \in S : i <= j

\* C10 as stated: the antipattern check reports if and only if the pattern
\* matches and the offset from the end of the function name in the line to
\* the start of the first match is greater than 1 and at most 4.
C10_OffsetFromNameEnd ==
    \A c \in CallsTo("checkBoolFuncStyle") :
        LET d == DeclOf(c.arg)
            line == d.Doc[1]
        IN  (IsPredicateDecl(d) /\ Occurrences(line, d.Name) # {}) =>
              (SiteHits(c, 225) = 1
                 <=> (/\ PhraseStarts(line) # {}
                      /\ Least(PhraseStarts(line))
                            - (Least(Occurrences(line, d.Name)) + Len(d.Name)) \in 2..4))

\* C10 as amended: the antipattern check reports if and only if the pattern
\* matches and the zero-based byte offset of the first match in the comment
\* text (its marker included) minus the length of the function name is
\* greater than 1 and at most 4; where the name stands in the line plays no
\* part.
C10_OffsetMinusNameLength ==
    \A c \in CallsTo("checkBoolFuncStyle") :
        LET d == DeclOf(c.arg)
            line == d.Doc[1]
        IN  IsPredicateDecl(d) =>
              SiteHits(c, 225) =
                 (IF /\ PhraseStarts(line) # {}
                     /\ Least(PhraseStarts(line)) - Len(d.Name) \in 2..4
                  THEN 1 ELSE 0)

\* The antipattern check has reported on a line that does not hold the name,
\* and has kept silent on one where four bytes separate.
C10_Witness ==
    \E c \in CallsTo("checkBoolFuncStyle") :
        LET d == DeclOf(c.arg)
        IN  /\ IsPredicateDecl(d)
            /\ PhraseStarts(d.Doc[1]) # {}
            /\ Least(PhraseStarts(d.Doc[1])) - Len(d.Name) = 4
            /\ Occurrences(d.Doc[1], d.Name) = {}
            /\ SiteHits(c, 225) = 1

=============================================================================
